---- MODULE Spec2Model ----
(***************************************************************************)
(* Model of ubelt/_internal/static_autogen.py: the static generator of a   *)
(* package's __init__.py imports.                                          *)
(*                                                                         *)
(* Text is modelled character by character: a string is a sequence of      *)
(* one-character strings, so that strip, rstrip, startswith, find,         *)
(* readlines, join and textwrap.wrap are computed as Python computes them. *)
(***************************************************************************)
EXTENDS Integers, Sequences, FiniteSets, TLC

VARIABLES
    pc,          \* position in autogen_init / the operation under study
    file,        \* the package's __init__.py: [exists, text]
    runs,        \* number of calls of autogen_init started so far
    hist,        \* one record per completed write: [before, initstr, after]
    package,     \* the submodules of the package, in enumeration order
    imports,     \* the `imports` argument: [given, names]
    plan,        \* (modname, imports, from_imports) of _static_parse_imports
    err,         \* the exception that ended the call, or "none"
    from_str,    \* local fromimport_str of _initstr
    initstr,     \* the rendered block
    lines,       \* local lines of _autogen_init_write
    lineno,      \* number of lines the region scan has consumed
    startline, endline, explicit, init_indent   \* locals of the region scan

vars == <<pc, file, runs, hist, package, imports, plan, err, from_str, initstr,
          lines, lineno, startline, endline, explicit, init_indent>>

(***************************************************************************)
(* Bounds of the model.                                                    *)
(***************************************************************************)
MaxLines == 3      \* lines of an initial __init__.py
MaxRuns == 2       \* calls of autogen_init in one behaviour
MaxCalls == 2      \* top-level callables of one submodule
MaxFrom == 2       \* callables of one entry handed to the renderer

(***************************************************************************)
(* Python string primitives.                                               *)
(***************************************************************************)
NL == "\n"
Whitespace == {" ", "\n", "\t"}

Min(a, b) == IF a <= b THEN a ELSE b
Max(a, b) == IF a >= b THEN a ELSE b

\* s.startswith(p)
StartsWith(s, p) == Len(s) >= Len(p) /\ SubSeq(s, 1, Len(p)) = p

\* s.rstrip()
RStrip(s) ==
    LET keep == {i \in 1..Len(s) : s[i] \notin Whitespace}
    IN IF keep = {} THEN <<>>
       ELSE SubSeq(s, 1, CHOOSE i \in keep : \A j \in keep : j <= i)

\* s.lstrip()
LStrip(s) ==
    LET keep == {i \in 1..Len(s) : s[i] \notin Whitespace}
    IN IF keep = {} THEN <<>>
       ELSE SubSeq(s, CHOOSE i \in keep : \A j \in keep : i <= j, Len(s))

\* s.strip()
Strip(s) == LStrip(RStrip(s))

\* s.find(c): the 0-based index of the first c, or -1
Find(s, c) ==
    LET hits == {i \in 1..Len(s) : s[i] = c}
    IN IF hits = {} THEN -1
       ELSE (CHOOSE i \in hits : \A j \in hits : i <= j) - 1

\* c in s
Contains(s, c) == \E i \in 1..Len(s) : s[i] = c

\* the 0-based index a Python slice bound denotes in a sequence of length n
SliceIndex(i, n) == IF i < 0 THEN Max(n + i, 0) ELSE Min(i, n)

\* s[lo:hi]
Slice(s, lo, hi) ==
    LET a == SliceIndex(lo, Len(s))
        b == SliceIndex(hi, Len(s))
    IN SubSeq(s, a + 1, b)

\* ''.join(strs)
RECURSIVE Concat(_)
Concat(strs) ==
    IF strs = <<>> THEN <<>> ELSE Head(strs) \o Concat(Tail(strs))

\* sep.join(strs)
RECURSIVE Join(_, _)
Join(sep, strs) ==
    IF strs = <<>> THEN <<>>
    ELSE IF Len(strs) = 1 THEN Head(strs)
    ELSE Head(strs) \o sep \o Join(sep, Tail(strs))

\* file.readlines(): the text cut after every newline, the newlines kept
RECURSIVE ReadLines(_)
ReadLines(text) ==
    IF text = <<>> THEN <<>>
    ELSE LET k == Find(text, NL)
         IN IF k = -1 THEN <<text>>
            ELSE <<SubSeq(text, 1, k + 1)>>
                 \o ReadLines(SubSeq(text, k + 2, Len(text)))

\* s.replace('\n', '\n' + indent)
RECURSIVE ReplaceNL(_, _)
ReplaceNL(s, indent) ==
    IF s = <<>> THEN <<>>
    ELSE (IF Head(s) = NL THEN <<NL>> \o indent ELSE <<Head(s)>>)
         \o ReplaceNL(Tail(s), indent)

\* s.split('\n')
RECURSIVE SplitNL(_)
SplitNL(s) ==
    LET k == Find(s, NL)
    IN IF k = -1 THEN <<s>>
       ELSE <<SubSeq(s, 1, k)>> \o SplitNL(SubSeq(s, k + 2, Len(s)))

\* c * n
Rep(c, n) == [i \in 1..n |-> c]

(***************************************************************************)
(* Literals of the source.                                                 *)
(***************************************************************************)
BEGIN_TAG == <<"#", " ", "<", "A", "U", "T", "O", "G", "E", "N", "_", "I", "N", "I", "T", ">">>
END_TAG == <<"#", " ", "<", "/", "A", "U", "T", "O", "G", "E", "N", "_", "I", "N", "I", "T", ">">>
FUTURE_IMPORT == <<"f", "r", "o", "m", " ", "_", "_", "f", "u", "t", "u", "r", "e", "_", "_">>
DQ3 == <<"\"", "\"", "\"">>
SQ3 == <<"'", "'", "'">>
KwFrom == <<"f", "r", "o", "m", " ">>
KwImport == <<" ", "i", "m", "p", "o", "r", "t", " ">>
KwImportParen == <<" ", "i", "m", "p", "o", "r", "t", " ", "(">>
WrapWidth == 79

(***************************************************************************)
(* _indent                                                                 *)
(***************************************************************************)
_indent(str_, indent) == indent \o ReplaceNL(str_, indent)

(***************************************************************************)
(* The region scan of _autogen_init_write: one iteration of the for loop   *)
(* over enumerate(lines), on the scan state st = [startline, endline,      *)
(* explicit, init_indent].                                                 *)
(***************************************************************************)
ScanStart(ls) ==
    [startline |-> 0, endline |-> Len(ls), explicit |-> FALSE,
     init_indent |-> <<>>]

ScanLine(st, no, line) ==
    LET s1 == IF ~st.explicit /\ Strip(line) \in {DQ3, SQ3}
              THEN [st EXCEPT !.startline = no + 1] ELSE st
        s2 == IF ~s1.explicit /\ StartsWith(Strip(line), FUTURE_IMPORT)
              THEN [s1 EXCEPT !.startline = no + 1] ELSE s1
        s3 == IF ~s2.explicit /\ StartsWith(Strip(line), <<"#">>)
              THEN [s2 EXCEPT !.startline = no + 1] ELSE s2
        s4 == IF StartsWith(Strip(line), BEGIN_TAG)
              THEN [s3 EXCEPT !.init_indent = Slice(line, 0, Find(line, "#")),
                              !.explicit = TRUE,
                              !.startline = no + 1]
              ELSE s3
        s5 == IF s4.explicit /\ StartsWith(Strip(line), END_TAG)
              THEN [s4 EXCEPT !.endline = no] ELSE s4
    IN s5

\* the scan state after the first n lines
RECURSIVE ScanTo(_, _)
ScanTo(ls, n) ==
    IF n = 0 THEN ScanStart(ls)
    ELSE ScanLine(ScanTo(ls, n - 1), n - 1, ls[n])

\* a faulty variant of the assertion: nothing is checked
BoundaryUnchecked(st) == TRUE

\* assert startline <= endline
BoundaryOk(st) == st.startline <= st.endline

\* a faulty variant of the splice: the tail is taken from one line too far
NewTextPastEnd(ls, st, str_) ==
    LET initstr_ == _indent(str_, st.init_indent) \o <<NL>>
        new_lines == Slice(ls, 0, st.startline) \o <<initstr_>>
                     \o Slice(ls, st.endline + 1, Len(ls))
    IN RStrip(Concat(new_lines))

\* lines 115-123: the text handed to file_.write
NewText(ls, st, str_) ==
    LET initstr_ == _indent(str_, st.init_indent) \o <<NL>>
        new_lines == Slice(ls, 0, st.startline) \o <<initstr_>>
                     \o Slice(ls, st.endline, Len(ls))
    IN RStrip(Concat(new_lines))

(***************************************************************************)
(* textwrap.wrap(text, width=WrapWidth, break_long_words=False,            *)
(* initial_indent='', subsequent_indent=indent).  The text holds no tab    *)
(* and no hyphen, so the chunks are its maximal runs of whitespace and of  *)
(* other characters.                                                       *)
(***************************************************************************)
IsSpace(chunk) == Strip(chunk) = <<>>

\* length of the longest prefix of s whose characters are all (not) whitespace
RunLen(s, ws) ==
    LET other == {i \in 1..Len(s) : (s[i] \in Whitespace) # ws}
    IN IF other = {} THEN Len(s)
       ELSE (CHOOSE i \in other : \A j \in other : i <= j) - 1

RECURSIVE Chunks(_)
Chunks(s) ==
    IF s = <<>> THEN <<>>
    ELSE LET k == RunLen(s, Head(s) \in Whitespace)
         IN <<SubSeq(s, 1, k)>> \o Chunks(SubSeq(s, k + 1, Len(s)))

\* the inner while loop of _wrap_chunks: how many leading chunks fit in width
RECURSIVE TakeFit(_, _)
TakeFit(chunks, width) ==
    IF chunks = <<>> \/ Len(Head(chunks)) > width THEN 0
    ELSE 1 + TakeFit(Tail(chunks), width - Len(Head(chunks)))

RECURSIVE WrapChunks(_, _, _)
WrapChunks(chunks, out, indent) ==
    IF chunks = <<>> THEN out
    ELSE
      LET ind == IF out # <<>> THEN indent ELSE <<>>
          width == WrapWidth - Len(ind)
          \* drop_whitespace at the start of every line but the first
          ch == IF IsSpace(Head(chunks)) /\ out # <<>>
                THEN Tail(chunks) ELSE chunks
          fit == TakeFit(ch, width)
          \* _handle_long_word with break_long_words=False: a chunk wider
          \* than the line goes on a line of its own
          n == IF fit < Len(ch) /\ Len(ch[fit + 1]) > width /\ fit = 0
               THEN 1 ELSE fit
          cur == SubSeq(ch, 1, n)
          cur_line == IF cur # <<>> /\ IsSpace(cur[Len(cur)])
                      THEN SubSeq(cur, 1, Len(cur) - 1) ELSE cur
          rest == SubSeq(ch, n + 1, Len(ch))
      IN WrapChunks(rest,
                    IF cur_line # <<>>
                    THEN Append(out, ind \o Concat(cur_line)) ELSE out,
                    indent)

TextWrap(text, indent) == WrapChunks(Chunks(text), <<>>, indent)

(***************************************************************************)
(* The renderer: _make_module_header, _make_imports_str,                   *)
(* _make_fromimport_str and _initstr.  A from_imports entry is a record    *)
(* [name, fromlist].                                                       *)
(***************************************************************************)
ModuleHeader == <<"#", " ", "f", "l", "a", "k", "e", "8", ":", " ", "n",
    "o", "q", "a", NL, "f", "r", "o", "m", " ", "_", "_", "f", "u", "t",
    "u", "r", "e", "_", "_", " ", "i", "m", "p", "o", "r", "t", " ", "a",
    "b", "s", "o", "l", "u", "t", "e", "_", "i", "m", "p", "o", "r", "t",
    ",", " ", "d", "i", "v", "i", "s", "i", "o", "n", ",", " ", "p", "r",
    "i", "n", "t", "_", "f", "u", "n", "c", "t", "i", "o", "n", ",", " ",
    "u", "n", "i", "c", "o", "d", "e", "_", "l", "i", "t", "e", "r", "a",
    "l", "s">>

_make_module_header == ModuleHeader

_make_imports_str(imps, rootmodname) ==
    LET Fmt(name) == KwFrom \o rootmodname \o KwImport \o name
    IN Join(<<NL>>, [i \in 1..Len(imps) |-> Fmt(imps[i])])

\* the text before the first callable: 'from {rootmodname}.{name} import ('
FromModuleStr(rootmodname, name) ==
    KwFrom \o rootmodname \o <<".">> \o name \o KwImportParen

\* a faulty variant of _pack_fromimport: the statement is not wrapped
PackUnwrapped(rootmodname, tup) ==
    IF Len(tup.fromlist) > 0
    THEN FromModuleStr(rootmodname, tup.name)
         \o Join(<<",", " ">>, tup.fromlist) \o <<",", ")">>
    ELSE <<>>

_pack_fromimport(rootmodname, tup) ==
    LET from_module_str == FromModuleStr(rootmodname, tup.name)
        newline_prefix == Rep(" ", Len(from_module_str))
        rawstr == IF Len(tup.fromlist) > 0
                  THEN from_module_str \o Join(<<",", " ">>, tup.fromlist)
                       \o <<",", ")">>
                  ELSE <<>>
    IN Join(<<NL>>, TextWrap(rawstr, newline_prefix))

_make_fromimport_str(from_imports, rootmodname) ==
    LET root == IF rootmodname = <<".">> THEN <<>> ELSE rootmodname
        Pack(tup) == _pack_fromimport(root, tup)
    IN Join(<<NL>>, [i \in 1..Len(from_imports) |-> Pack(from_imports[i])])

_initstr(modname, imps, from_imports, withheader) ==
    LET header == IF withheader THEN _make_module_header ELSE <<>>
        import_str == _make_imports_str(imps, modname)
        fromimport_str == _make_fromimport_str(from_imports, modname)
    IN Join(<<NL>>, SelectSeq(<<header, import_str, fromimport_str>>,
                              LAMBDA str_ : Len(str_) > 0))

(***************************************************************************)
(* The import plan builder: _static_parse_imports.  A submodule of the     *)
(* package is a record [rel, ok, calldefs]: its name relative to the root, *)
(* whether its source parses, and the names TopLevelVisitor finds in it.   *)
(* A module path is the submodule's index in the package; 0 is None.       *)
(***************************************************************************)
\* static.modname_to_modpath(name)
modname_to_modpath(pkg, modname, name) ==
    LET hits == {i \in 1..Len(pkg) : modname \o <<".">> \o pkg[i].rel = name}
    IN IF hits = {} THEN 0 ELSE CHOOSE i \in hits : TRUE

\* line 66: sub_modname[len(modname) + 1:]
RelModname(modname, sub) ==
    LET sub_modname == modname \o <<".">> \o sub.rel
    IN Slice(sub_modname, Len(modname) + 1, Len(sub_modname))

\* a faulty variant of the filter: dotted names are let through
SkipPrivateOnly(callname) == StartsWith(callname, <<"_">>)

\* line 79: the callables that are skipped
SkipCallname(callname) ==
    Contains(callname, ".") \/ StartsWith(callname, <<"_">>)

\* line 67: the submodules that are skipped
SkipSubmodule(rel_modname) == StartsWith(rel_modname, <<"_">>)

ValidCallnames(calldefs) ==
    SelectSeq(calldefs, LAMBDA callname : ~SkipCallname(callname))

\* lines 57-70: the (imports, import_paths) pair
ImportsAndPaths(pkg, modname, imp) ==
    IF imp.given
    THEN [imports |-> imp.names,
          paths |-> [i \in 1..Len(imp.names) |->
                       modname_to_modpath(pkg, modname,
                                          modname \o <<".">> \o imp.names[i])]]
    ELSE LET kept == SelectSeq([i \in 1..Len(pkg) |-> i],
                      LAMBDA i : ~SkipSubmodule(RelModname(modname, pkg[i])))
         IN [imports |-> [k \in 1..Len(kept) |-> RelModname(modname, pkg[kept[k]])],
             paths |-> kept]

\* lines 72-82: the loop over zip(import_paths, imports), from entry k on
RECURSIVE ParseLoop(_, _, _, _)
ParseLoop(pkg, ip, k, acc) ==
    IF k > Len(ip.paths) THEN [err |-> "none", from_imports |-> acc]
    ELSE IF ip.paths[k] = 0
         THEN [err |-> "TypeError", from_imports |-> <<>>]   \* open(None)
    ELSE IF ~pkg[ip.paths[k]].ok
         THEN [err |-> "SyntaxError", from_imports |-> <<>>]
    ELSE ParseLoop(pkg, ip, k + 1,
                   Append(acc, [name |-> ip.imports[k],
                                fromlist |-> ValidCallnames(pkg[ip.paths[k]].calldefs)]))

_static_parse_imports(pkg, modname, imp) ==
    LET ip == ImportsAndPaths(pkg, modname, imp)
        res == ParseLoop(pkg, ip, 1, <<>>)
    IN [err |-> res.err, modname |-> modname,
        imports |-> IF res.err = "none" THEN ip.imports ELSE <<>>,
        from_imports |-> res.from_imports]

(***************************************************************************)
(* Inputs.                                                                 *)
(***************************************************************************)
\* the sequences of at most n distinct elements of S
DistinctSeqs(S, n) ==
    {q \in UNION {[1..k -> S] : k \in 0..n} :
        \A i, j \in 1..Len(q) : i # j => q[i] # q[j]}

\* the sequences of at most n elements of S
SeqsUpTo(S, n) == UNION {[1..k -> S] : k \in 0..n}

None == [given |-> FALSE, names |-> <<>>]
Explicit(names) == [given |-> TRUE, names |-> names]

\* modpath_to_modname(modpath) of the package under study
RootModname == <<"p">>

\* the __init__.py files: lines of the given shapes, the last one with or
\* without its newline
CommentLine == <<"#", " ", "c">>
CodeLine == <<"x", " ", "=", " ", "1">>
FutureLine == FUTURE_IMPORT \o KwImport \o <<"d">>
TagShapes == {BEGIN_TAG, <<" ", " ">> \o BEGIN_TAG, END_TAG, CommentLine, CodeLine}
AllShapes == TagShapes \cup {DQ3, FutureLine, <<>>}

FileTexts(shapes) ==
    {Join(<<NL>>, ls) \o tail :
        ls \in SeqsUpTo(shapes, MaxLines) \ {<<>>}, tail \in {<<>>, <<NL>>}}
    \cup {<<>>}

\* the packages autogen_init is run on
ModA == [rel |-> <<"a">>, ok |-> TRUE,
         calldefs |-> << <<"f">>, <<"_", "g">>, <<"C", ".", "m">> >>]
ModHidden == [rel |-> <<"_", "h">>, ok |-> TRUE, calldefs |-> << <<"k">> >>]
ModB == [rel |-> <<"b">>, ok |-> TRUE, calldefs |-> <<>>]
ModBroken == [rel |-> <<"a">>, ok |-> FALSE, calldefs |-> <<>>]
Packages == { <<ModA, ModHidden, ModB>>, <<ModBroken>> }
ImportArgs == {None, Explicit(<<>>), Explicit(<< <<"z">> >>)}

\* the packages and arguments _static_parse_imports is studied on
ModNames == {<<"a">>, <<"_", "h">>, <<"b">>}
CallNames == {<<"f">>, <<"_", "g">>, <<"C", ".", "m">>}
PlanPackages ==
    {[i \in 1..Len(names) |->
        [rel |-> names[i], ok |-> TRUE, calldefs |-> calls[names[i]]]] :
        names \in DistinctSeqs(ModNames, Cardinality(ModNames)),
        calls \in [ModNames -> DistinctSeqs(CallNames, MaxCalls)]}
PlanImportArgs ==
    {None, Explicit(<<>>), Explicit(<< <<"_", "h">> >>),
     Explicit(<< <<"b">>, <<"a">> >>), Explicit(<< <<"a">>, <<"z">> >>)}

\* the plans the renderer is studied on: names told apart by their length
RootNames == {Rep("r", 1), Rep("r", 30), Rep("r", 80)}
SubNames == {Rep("m", 1), Rep("m", 30)}
FromNames == {Rep("f", 1), Rep("f", 6), Rep("f", 80)}
RenderPlans ==
    {[modname |-> root,
      imports |-> names,
      from_imports |-> [i \in 1..Len(names) |->
                          [name |-> names[i], fromlist |-> lists[names[i]]]]] :
        root \in RootNames,
        names \in DistinctSeqs(SubNames, Cardinality(SubNames)),
        lists \in [SubNames -> DistinctSeqs(FromNames, MaxFrom)]}

(***************************************************************************)
(* The state machine.                                                      *)
(***************************************************************************)
NoPlan == [modname |-> <<>>, imports |-> <<>>, from_imports |-> <<>>]

NoCall ==
    /\ runs = 0 /\ hist = <<>> /\ err = "none"
    /\ from_str = <<>> /\ initstr = <<>>
    /\ lines = <<>> /\ lineno = 0
    /\ startline = 0 /\ endline = 0 /\ explicit = FALSE /\ init_indent = <<>>

Init ==
    /\ pc = "idle"
    /\ file \in {[exists |-> TRUE, text |-> t] : t \in FileTexts(TagShapes)}
                \cup {[exists |-> FALSE, text |-> <<>>]}
    /\ NoCall
    /\ package = <<>> /\ imports = None /\ plan = NoPlan

\* a call of autogen_init(modpath_or_name, imports, dry) on some package
Enter ==
    /\ runs' = runs + 1
    /\ pc' = "resolve"
    /\ \E pkg \in Packages, imp \in ImportArgs :
          package' = pkg /\ imports' = imp
    /\ err' = "none" /\ plan' = NoPlan /\ from_str' = <<>> /\ initstr' = <<>>
    /\ lines' = <<>> /\ lineno' = 0 /\ startline' = 0 /\ endline' = 0
    /\ explicit' = FALSE /\ init_indent' = <<>>
    /\ UNCHANGED <<file, hist>>

Call == pc = "idle" /\ Enter

\* a further call, after an earlier one has returned or raised
CallAgain ==
    /\ pc \in {"printed", "written", "failed"}
    /\ runs < MaxRuns
    /\ Enter

\* lines 34-41: modpath_or_name exists, or names a module, or neither
ResolveRoot ==
    /\ pc = "resolve"
    /\ \E found \in BOOLEAN :
          IF found THEN pc' = "parse" /\ err' = err
          ELSE pc' = "failed" /\ err' = "ValueError"
    /\ UNCHANGED <<file, runs, hist, package, imports, plan, from_str, initstr,
                   lines, lineno, startline, endline, explicit, init_indent>>

\* lines 43-44
StaticParseImports ==
    /\ pc = "parse"
    /\ LET res == _static_parse_imports(package, RootModname, imports)
       IN IF res.err = "none"
          THEN /\ plan' = [modname |-> res.modname, imports |-> res.imports,
                           from_imports |-> res.from_imports]
               /\ pc' = "render" /\ err' = err
          ELSE pc' = "failed" /\ err' = res.err /\ plan' = plan
    /\ UNCHANGED <<file, runs, hist, package, imports, from_str, initstr,
                   lines, lineno, startline, endline, explicit, init_indent>>

\* line 45, with the locals of _initstr
Render ==
    /\ pc = "render"
    /\ from_str' = _make_fromimport_str(plan.from_imports, plan.modname)
    /\ initstr' = _initstr(plan.modname, plan.imports, plan.from_imports, FALSE)
    /\ pc' = "emit"
    /\ UNCHANGED <<file, runs, hist, package, imports, plan, err,
                   lines, lineno, startline, endline, explicit, init_indent>>

\* lines 46-47: the call was made with dry=True
DryPrint ==
    /\ pc = "emit"
    /\ pc' = "printed"
    /\ UNCHANGED <<file, runs, hist, package, imports, plan, err, from_str,
                   initstr, lines, lineno, startline, endline, explicit,
                   init_indent>>

\* lines 48-49: the call was made with dry=False; the whole of
\* _autogen_init_write
AutogenInitWrite ==
    /\ pc = "emit"
    /\ IF ~file.exists
       THEN /\ pc' = "failed" /\ err' = "AssertionError"
            /\ UNCHANGED <<file, hist, lines, lineno, startline, endline,
                           explicit, init_indent>>
       ELSE LET ls == ReadLines(file.text)
                st == ScanTo(ls, Len(ls))
            IN /\ lines' = ls /\ lineno' = Len(ls)
               /\ startline' = st.startline /\ endline' = st.endline
               /\ explicit' = st.explicit /\ init_indent' = st.init_indent
               /\ IF BoundaryOk(st)
                  THEN /\ file' = [file EXCEPT !.text = NewText(ls, st, initstr)]
                       /\ hist' = Append(hist, [before |-> file.text,
                                                initstr |-> initstr,
                                                after |-> file'.text])
                       /\ pc' = "written" /\ err' = err
                  ELSE /\ pc' = "failed" /\ err' = "AssertionError"
                       /\ UNCHANGED <<file, hist>>
    /\ UNCHANGED <<runs, package, imports, plan, from_str, initstr>>

Next ==
    \/ Call
    \/ ResolveRoot
    \/ StaticParseImports
    \/ Render
    \/ DryPrint
    \/ AutogenInitWrite

\* one call of autogen_init on any package and any __init__.py
Spec == Init /\ [][Next]_vars

\* calls of autogen_init in succession on the same __init__.py
NextRepeat == Next \/ CallAgain

SpecRepeat == Init /\ [][NextRepeat]_vars

(***************************************************************************)
(* The region scan of _autogen_init_write, one line at a time.             *)
(***************************************************************************)
InitScan ==
    /\ pc = "scan"
    /\ file \in {[exists |-> TRUE, text |-> t] : t \in FileTexts(AllShapes)}
    /\ runs = 0 /\ hist = <<>> /\ err = "none"
    /\ package = <<>> /\ imports = None /\ plan = NoPlan
    /\ from_str = <<>> /\ initstr = <<>>
    /\ lines = ReadLines(file.text) /\ lineno = 0
    /\ startline = ScanStart(lines).startline
    /\ endline = ScanStart(lines).endline
    /\ explicit = ScanStart(lines).explicit
    /\ init_indent = ScanStart(lines).init_indent

\* lines 101-113: one iteration of the loop
ScanStep ==
    /\ pc = "scan"
    /\ lineno < Len(lines)
    /\ LET st == ScanLine([startline |-> startline, endline |-> endline,
                           explicit |-> explicit, init_indent |-> init_indent],
                          lineno, lines[lineno + 1])
       IN /\ startline' = st.startline /\ endline' = st.endline
          /\ explicit' = st.explicit /\ init_indent' = st.init_indent
    /\ lineno' = lineno + 1
    /\ UNCHANGED <<pc, file, runs, hist, package, imports, plan, err, from_str,
                   initstr, lines>>

\* line 117: the assertion after the loop
ScanEnd ==
    /\ pc = "scan"
    /\ lineno = Len(lines)
    /\ IF BoundaryOk([startline |-> startline, endline |-> endline])
       THEN pc' = "scanned" /\ err' = err
       ELSE pc' = "failed" /\ err' = "AssertionError"
    /\ UNCHANGED <<file, runs, hist, package, imports, plan, from_str, initstr,
                   lines, lineno, startline, endline, explicit, init_indent>>

NextScan ==
    \/ ScanStep
    \/ ScanEnd

SpecScan == InitScan /\ [][NextScan]_vars

(***************************************************************************)
(* _static_parse_imports on any package, and the renderer on any plan.     *)
(***************************************************************************)
InitPlan ==
    /\ pc = "parse"
    /\ file = [exists |-> FALSE, text |-> <<>>]
    /\ NoCall
    /\ package \in PlanPackages
    /\ imports \in PlanImportArgs
    /\ plan = NoPlan

NextPlan ==
    \/ StaticParseImports
    \/ Render

SpecPlan == InitPlan /\ [][NextPlan]_vars

InitRender ==
    /\ pc = "render"
    /\ file = [exists |-> FALSE, text |-> <<>>]
    /\ NoCall
    /\ package = <<>> /\ imports = None
    /\ plan \in RenderPlans

NextRender == Render

SpecRender == InitRender /\ [][NextRender]_vars

(***************************************************************************)
(* Properties.                                                             *)
(***************************************************************************)
EndsWith(s, p) ==
    Len(s) >= Len(p) /\ SubSeq(s, Len(s) - Len(p) + 1, Len(s)) = p

\* p occurs in s
IsInfix(p, s) ==
    \E i \in 0..(Len(s) - Len(p)) : SubSeq(s, i + 1, i + Len(p)) = p

IsBeginLine(line) == StartsWith(Strip(line), BEGIN_TAG)
IsEndLine(line) == StartsWith(Strip(line), END_TAG)

HasMarkers(text) ==
    LET ls == ReadLines(text)
    IN /\ \E i \in 1..Len(ls) : IsBeginLine(ls[i])
       /\ \E i \in 1..Len(ls) : IsEndLine(ls[i])

\* what the last merge kept of the file it read
PreservedPrefix == Concat(Slice(lines, 0, startline))
PreservedSuffix == Concat(Slice(lines, endline, Len(lines)))

\* C1: two merges in succession of the same rendered block into a file
\* that holds a begin marker line and an end marker line leave, after the
\* second, the text the first one left.
C1_Idempotent ==
    \A i \in 1..(Len(hist) - 1) :
        ( /\ HasMarkers(hist[i].before)
          /\ hist[i + 1].before = hist[i].after
          /\ hist[i + 1].initstr = hist[i].initstr )
        => hist[i + 1].after = hist[i].after

\* C2 as stated: the written text begins with lines[0:startline] and ends
\* with lines[endline:], character for character.
C2_PreservedExactly ==
    pc = "written" =>
        /\ StartsWith(file.text, PreservedPrefix)
        /\ EndsWith(file.text, PreservedSuffix)

\* C2 as amended: the written text begins with lines[0:startline] and ends
\* with lines[endline:] except for the whitespace at the very end of the
\* text, which the final rstrip removes.
C2_PreservedUpToTrailingSpace ==
    pc = "written" =>
        /\ StartsWith(file.text, RStrip(PreservedPrefix))
        /\ (file.text # RStrip(PreservedPrefix)
               => StartsWith(file.text, PreservedPrefix))
        /\ EndsWith(file.text, RStrip(PreservedSuffix))
        /\ Len(file.text) >= Len(PreservedPrefix) + Len(RStrip(PreservedSuffix))
           \/ file.text = RStrip(PreservedPrefix)

C2_Witness ==
    /\ pc = "written" /\ explicit
    /\ 0 < startline /\ startline < endline /\ endline < Len(lines)
    /\ initstr # <<>>
    /\ PreservedSuffix # RStrip(PreservedSuffix)

\* C3: a call that fails leaves the __init__.py as it was, and the file
\* is written only by the step that follows the plan, the rendering and a
\* boundary check that passed.
C3_NoWriteOnFailure ==
    [][ /\ (pc' = "failed" => file' = file /\ hist' = <<>>)
        /\ (file' # file =>
              /\ pc = "emit" /\ pc' = "written" /\ err' = "none"
              /\ file.exists
              /\ plan.modname = RootModname
              /\ initstr = _initstr(plan.modname, plan.imports,
                                    plan.from_imports, FALSE)
              /\ startline' <= endline') ]_vars

C3_Witness ==
    /\ pc = "failed" /\ err = "AssertionError"
    /\ file.exists /\ startline > endline

\* C4 as stated: no entry of a plan has a submodule name that starts with
\* an underscore, nor a callable that starts with an underscore or holds a
\* dot.
C4_AllFiltered ==
    pc \in {"render", "emit"} =>
        \A i \in 1..Len(plan.from_imports) :
            /\ ~StartsWith(plan.from_imports[i].name, <<"_">>)
            /\ \A k \in 1..Len(plan.from_imports[i].fromlist) :
                  LET callname == plan.from_imports[i].fromlist[k]
                  IN ~StartsWith(callname, <<"_">>) /\ ~Contains(callname, ".")

\* C4 as amended: no entry of a plan has a callable that starts with an
\* underscore or holds a dot, and none appears in the rendered text; the
\* submodule names start with no underscore when the submodules are
\* enumerated, and are the caller's names, in the caller's order, when
\* `imports` is given.
C4_CallablesFiltered ==
    /\ pc \in {"render", "emit"} =>
          /\ \A i \in 1..Len(plan.from_imports) :
                /\ plan.from_imports[i].name = plan.imports[i]
                /\ ~imports.given
                      => ~StartsWith(plan.from_imports[i].name, <<"_">>)
                /\ \A k \in 1..Len(plan.from_imports[i].fromlist) :
                      LET callname == plan.from_imports[i].fromlist[k]
                      IN /\ ~StartsWith(callname, <<"_">>)
                         /\ ~Contains(callname, ".")
          /\ Len(plan.imports) = Len(plan.from_imports)
          /\ imports.given => plan.imports = imports.names
    /\ pc = "emit" =>
          /\ \A callname \in CallNames :
                (StartsWith(callname, <<"_">>) \/ Contains(callname, "."))
                   => ~IsInfix(callname, initstr)
          /\ ~imports.given =>
                \A name \in ModNames :
                    StartsWith(name, <<"_">>) => ~IsInfix(name, initstr)

C4_Witness ==
    /\ pc = "emit" /\ ~imports.given
    /\ \E i \in 1..Len(package) : StartsWith(package[i].rel, <<"_">>)
    /\ \E i \in 1..Len(package) :
          /\ ~StartsWith(package[i].rel, <<"_">>)
          /\ \E k \in 1..Len(package[i].calldefs) :
                StartsWith(package[i].calldefs[k], <<"_">>)
          /\ \E k \in 1..Len(package[i].calldefs) :
                Contains(package[i].calldefs[k], ".")
    /\ Len(plan.from_imports) > 0

\* the words of the statements _make_fromimport_str packs, in order
StatementWords(rootmodname, from_imports) ==
    LET Raw(tup) ==
            IF Len(tup.fromlist) > 0
            THEN SelectSeq(Chunks(FromModuleStr(rootmodname, tup.name)
                                  \o Join(<<",", " ">>, tup.fromlist)
                                  \o <<",", ")">>),
                           LAMBDA c : ~IsSpace(c))
            ELSE <<>>
    IN Concat([i \in 1..Len(from_imports) |-> Raw(from_imports[i])])

RenderedWords(text) == SelectSeq(Chunks(text), LAMBDA c : ~IsSpace(c))

\* C5 as stated: a line of the from-import text is longer than 79
\* characters only if one callable on it is itself longer than 79.
C5_WidthUnlessLongName ==
    pc = "emit" =>
        \A n \in 1..Len(SplitNL(from_str)) :
            LET line == SplitNL(from_str)[n]
            IN \/ Len(line) <= WrapWidth
               \/ \E i \in 1..Len(plan.from_imports) :
                    \E k \in 1..Len(plan.from_imports[i].fromlist) :
                       LET callname == plan.from_imports[i].fromlist[k]
                       IN Len(callname) > WrapWidth /\ IsInfix(callname, line)

\* C5 as amended: a line of the from-import text is longer than 79
\* characters only if it holds, after its indentation, a single word (one
\* that does not fit in what the indentation leaves of the width); no word
\* is split or lost.
C5_WidthUnlessSingleWord ==
    pc = "emit" =>
        /\ \A n \in 1..Len(SplitNL(from_str)) :
              LET line == SplitNL(from_str)[n]
              IN \/ Len(line) <= WrapWidth
                 \/ Len(Chunks(LStrip(line))) = 1
        /\ RenderedWords(from_str)
              = StatementWords(plan.modname, plan.from_imports)

C5_Witness ==
    /\ pc = "emit"
    /\ \E n \in 1..Len(SplitNL(from_str)) :
          /\ Len(SplitNL(from_str)[n]) > WrapWidth
          /\ Len(LStrip(SplitNL(from_str)[n])) <= WrapWidth
    /\ \E n \in 1..Len(SplitNL(from_str)) :
          /\ Len(SplitNL(from_str)[n]) > WrapWidth - 5
          /\ Len(SplitNL(from_str)[n]) <= WrapWidth
          /\ Len(Chunks(LStrip(SplitNL(from_str)[n]))) > 1

\* C6: the rendered block holds no empty line and neither begins nor ends
\* with a newline.
C6_NoBlankLines ==
    pc = "emit" /\ initstr # <<>> =>
        \A n \in 1..Len(SplitNL(initstr)) : SplitNL(initstr)[n] # <<>>

\* C7: the region scan ends with 0 <= startline <= endline <= len(lines),
\* so that the assertion holds.
C7_BoundaryInvariant ==
    lineno = Len(lines) =>
        /\ 0 <= startline /\ startline <= endline /\ endline <= Len(lines)
        /\ err # "AssertionError"

\* C8: an explicit `imports` name that resolves to no module path makes
\* _static_parse_imports fail with the error of an unresolvable root.
C8_ResolutionError ==
    ( /\ pc # "parse" /\ imports.given
      /\ \E k \in 1..Len(imports.names) :
            modname_to_modpath(package, RootModname,
                RootModname \o <<".">> \o imports.names[k]) = 0 )
    => pc = "failed" /\ err = "ValueError"

\* line i (0-based) is the first end marker line met in explicit mode
IsFirstEnd(i) ==
    /\ IsEndLine(lines[i + 1]) /\ ScanTo(lines, i + 1).explicit
    /\ \A j \in 0..(i - 1) :
          ~(IsEndLine(lines[j + 1]) /\ ScanTo(lines, j + 1).explicit)

\* C9: from the first end marker line met in explicit mode on, endline is
\* that line's index, and startline is what it was after that line.
C9_EndMarkerStops ==
    \A i \in 0..(lineno - 1) :
        IsFirstEnd(i) =>
            /\ endline = i
            /\ startline = ScanTo(lines, i + 1).startline

\* C10: the text a merge keeps in front of a rendered block is empty or
\* ends with a newline, so that the block starts a line.
C10_BlockStartsLine ==
    pc = "written" /\ initstr # <<>> =>
        \/ PreservedPrefix = <<>>
        \/ PreservedPrefix[Len(PreservedPrefix)] = NL

====
